---- MODULE Spec2Model ----
(***************************************************************************)
(* Model of the ArangoDB starter's setup persistence (setup_config.go),    *)
(* local slave orchestration (local_slaves.go) and of the gone-detection   *)
(* loop of the test helpers (test/util.go).                                *)
(*                                                                         *)
(* One master Service runs in data directory MasterDir.  It is stopped,    *)
(* crashed and restarted; its local slaves are goroutines of the same OS   *)
(* process.  Files are sequences of string tokens, a token-level rendering *)
(* of the JSON that encoding/json produces for SetupConfigFile.            *)
(***************************************************************************)
EXTENDS Integers, Sequences, FiniteSets, TLC

\* ------------------------------------------------------------------ bounds
\* largest agency size a starter is configured with
MaxAgency == 3
\* number of times the starter process is started again on its data directory
MaxRestarts == 1
\* tokens one write(2) call of ioutil.WriteFile transfers
WriteChunk == 8
\* largest agency size in the runs that vary the starter's own address
AddrAgency == 3
\* largest agency size in the runs checked under fair scheduling
LiveAgency == 2
\* largest agency size in the runs whose harness records the configuration
ConfAgency == 2
\* largest agency size in the runs of a shutdown through the API
ShutAgency == 2
\* largest number of starters one WaitUntilStarterReady is given
MaxStarters == 3
\* largest agency size in the runs on a data directory with blocked paths
DirsAgency == 2

\* --------------------------------------------------------------- constants
SetupConfigVersion == "0.2.1"
\* a version string stamped by an earlier release of the starter
OlderVersion == "0.2.0"
setupFileName == "setup.json"
MasterDir == "d0"
Ports == {8528}
LoopbackChars == <<"1", "2", "7", ".", "0", ".", "0", ".", "1">>
\* the own addresses a starter can be configured with: unset, a host name, an IPv6 literal
OwnAddresses == {<<>>, <<"h", "1">>, <<":", ":", "1">>}

\* the content ioutil.ReadFile cannot deliver: the file does not exist
NoFile == <<"ENOENT">>

VARIABLES
  \* ---- the master Service (service.Service fields) ----
  ID,               \* s.ID
  myPeers,          \* s.myPeers : [Peers, AgencySize]
  AgencySize,       \* s.AgencySize (s.Config)
  StartLocalSlaves, \* s.StartLocalSlaves (s.Config)
  OwnAddress,       \* s.OwnAddress (s.Config), a sequence of characters
  announcePort,     \* s.announcePort
  ctxCancelled,     \* s.ctx is Done
  httpServer,       \* the control-plane listener is up
  pc,               \* position of the master's Run
  cfg,              \* local variable cfg of relaunch (NoCfg when unset)
  wg,               \* the sync.WaitGroup counter of this Run
  slaves,           \* slave services created by startLocalSlaves, in loop order
  orch,             \* what the orchestration call of this run did (log of its loops)
  \* ---- saveSetup in progress ----
  savePc,           \* "idle" | "open" (file truncated, bytes pending)
  saveBuf,          \* bytes of b not yet written
  saveOld,          \* content of the file when the saveSetup in progress began
  saved,            \* arguments of the last saveSetup that returned nil, while its file stands
  \* ---- the file system ----
  setupFile,        \* content of <MasterDir>/setup.json
  slaveSetup,       \* slave directory -> the setup.json a slave left there:
                    \*   "absent" | "plain" | "flagged" (start-local-slaves is set),
                    \*   or "notdir": a regular file stands where the directory should be
  dirs,             \* directories that exist
  \* ---- process history ----
  restarts,         \* number of restarts of the master process
  outcome,          \* return value of relaunch in this run: "none" | "true" | "false"
  \* ---- WaitUntilStarterGone ----
  failures,         \* local variable failures
  gonePc,           \* "idle" | "polling" | "gone"
  recent,           \* results of the most recent queries (newest last, at most 3)
  \* ---- the test harness ----
  noted,            \* the configuration the harness started the current process with
  \* ---- WaitUntilStarterReady ----
  what,             \* the role label of the pattern
  starters,         \* the processes given: [role, out], out the lines printed so far
  expects,          \* the goroutines launched so far, one per starter: state of ExpectTimeout
  g,                \* the sync.WaitGroup counter
  result,           \* local variable result
  readyPc,          \* "idle" | "loop" | "wait" | "returned"
  \* ---- testProcesses ----
  target,           \* the starter queried: [mode, tls, agent]
  mode,             \* parameter mode
  isSecure,         \* parameter isSecure
  processes,        \* the process list c.Processes returned
  errors,           \* the failures reported with t.Errorf
  procPc            \* position of testProcesses

svcVars == <<ID, myPeers, AgencySize, StartLocalSlaves, OwnAddress, announcePort>>
runVars == <<ctxCancelled, httpServer, pc, cfg, wg, slaves, orch, outcome>>
saveVars == <<savePc, saveBuf, saveOld, saved>>
fsVars == <<setupFile, slaveSetup, dirs>>
goneVars == <<failures, gonePc, recent>>
\* everything the test client holds
readyVars == <<what, starters, expects, g, result, readyPc>>
procVars == <<target, mode, isSecure, processes, errors, procPc>>
clientVars == <<goneVars, noted, readyVars, procVars>>
vars == <<svcVars, runVars, saveVars, fsVars, restarts, clientVars>>

\* ------------------------------------------------------------ small helpers
Range(s) == {s[i] : i \in 1..Len(s)}

Prefix(s, n) == SubSeq(s, 1, n)
Suffix(s, n) == SubSeq(s, n + 1, Len(s))

\* filepath.Join(dir, name)
JoinPath(dir, name) == dir \o "/" \o name

\* fmt.Sprintf("local-slave-%d", n)
LocalSlaveName(n) == "local-slave-" \o ToString(n)

\* the data directories of the local slaves
SlaveDir(k) == JoinPath(MasterDir, LocalSlaveName(k))
SlaveDirs == {SlaveDir(k) : k \in 0..MaxAgency}

\* identifiers createUniqueID can return
IDName(n) == "id" \o ToString(n)
PoolSize == 2 * MaxAgency
IDPool == {IDName(n) : n \in 1..PoolSize}

\* ------------------------------------------------------------- peers, Peer
NewPeer(id, dir) == [ID |-> id, DataDir |-> dir]
NewPeers(ps, n) == [Peers |-> ps, AgencySize |-> n]
NoPeers == NewPeers(<<>>, 0)
PeerIDs(ps) == {ps[i].ID : i \in 1..Len(ps)}

\* SetupConfigFile
SetupConfigFile(v, id, ps, flag) ==
  [Version |-> v, ID |-> id, Peers |-> ps, StartLocalSlaves |-> flag]
NoCfg == SetupConfigFile("", "", NoPeers, FALSE)

\* ------------------------------------------------------------ encoding/json
RECURSIVE MarshalPeerList(_)
MarshalPeerList(ps) ==
  IF ps = <<>> THEN <<>>
  ELSE <<Head(ps).ID, Head(ps).DataDir>> \o MarshalPeerList(Tail(ps))

MarshalPeers(p) ==
  <<"{", "Peers", "[">> \o MarshalPeerList(p.Peers)
    \o <<"]", "AgencySize", ToString(p.AgencySize), "}">>

\* Marshal, had the start-local-slaves member been left out of the encoding
MarshalOmitFlag(c) ==
  <<"{", "version", c.Version, "id", c.ID, "peers">> \o MarshalPeers(c.Peers) \o <<"}">>

\* json.Marshal(cfg): the start-local-slaves member is omitted when false (omitempty)
Marshal(c) ==
  <<"{", "version", c.Version, "id", c.ID, "peers">> \o MarshalPeers(c.Peers)
    \o (IF c.StartLocalSlaves THEN <<"start-local-slaves", "true">> ELSE <<>>)
    \o <<"}">>

Punctuation == {"{", "}", "[", "]"}
IsNumber(tok) == \E n \in 0..(MaxAgency + 1) : ToString(n) = tok
Atoi(tok) == CHOOSE n \in 0..(MaxAgency + 1) : ToString(n) = tok

RECURSIVE UnmarshalPeerList(_)
UnmarshalPeerList(toks) ==
  IF toks = <<>> THEN <<>>
  ELSE <<NewPeer(toks[1], toks[2])>> \o UnmarshalPeerList(Suffix(toks, 2))

\* position of the first "]" at or after index 10, 0 when there is none
CloseBracket(b) ==
  IF \E k \in 10..Len(b) : b[k] = "]"
  THEN CHOOSE k \in 10..Len(b) : b[k] = "]" /\ \A j \in 10..(k - 1) : b[j] # "]"
  ELSE 0

\* the tail after the peers object: "}" or "start-local-slaves" "true" "}"
TailOK(t) == t = <<"}">> \/ t = <<"start-local-slaves", "true", "}">>

\* json.Unmarshal(b, &cfg) returns nil
Parses(b) ==
  /\ Len(b) >= 14
  /\ Prefix(b, 2) = <<"{", "version">>
  /\ b[3] \notin Punctuation
  /\ b[4] = "id"
  /\ b[5] \notin Punctuation
  /\ SubSeq(b, 6, 9) = <<"peers", "{", "Peers", "[">>
  /\ LET k == CloseBracket(b) IN
       /\ k > 0
       /\ (k - 10) % 2 = 0
       /\ \A j \in 10..(k - 1) : b[j] \notin Punctuation
       /\ Len(b) >= k + 4
       /\ b[k + 1] = "AgencySize"
       /\ IsNumber(b[k + 2])
       /\ b[k + 3] = "}"
       /\ TailOK(Suffix(b, k + 3))

\* the value json.Unmarshal leaves in cfg when it returns nil
Unmarshal(b) ==
  LET k == CloseBracket(b) IN
    SetupConfigFile(b[3], b[5],
                    NewPeers(UnmarshalPeerList(SubSeq(b, 10, k - 1)), Atoi(b[k + 2])),
                    Len(b) = k + 6)

\* --------------------------------------------------------------- net, strconv
RECURSIVE Itoa(_)
\* strconv.Itoa for n >= 0, as a sequence of digit characters
Itoa(n) ==
  LET d == <<"0", "1", "2", "3", "4", "5", "6", "7", "8", "9">>[(n % 10) + 1]
  IN IF n < 10 THEN <<d>> ELSE Itoa(n \div 10) \o <<d>>

\* net.JoinHostPort: a host containing a colon (an IPv6 literal) is put in brackets
JoinHostPort(host, port) ==
  IF \E i \in 1..Len(host) : host[i] = ":"
  THEN <<"[">> \o host \o <<"]", ":">> \o port
  ELSE host \o <<":">> \o port

\* the host part of a host:port address (net.SplitHostPort)
LastColon(a) == CHOOSE k \in 1..Len(a) : a[k] = ":" /\ \A j \in (k + 1)..Len(a) : a[j] # ":"
HostOf(a) ==
  IF a[1] = "[" THEN SubSeq(a, 2, LastColon(a) - 2) ELSE SubSeq(a, 1, LastColon(a) - 1)
PortOf(a) == Suffix(a, LastColon(a))

\* -------------------------------------------------------- createUniqueID
\* identifiers present anywhere: in memory, in a setup file, in a write in progress
UsedIDs ==
  ({ID} \cup PeerIDs(myPeers.Peers) \cup PeerIDs(cfg.Peers.Peers)
     \cup {slaves[i].ID : i \in 1..Len(slaves)}
     \cup Range(setupFile) \cup Range(saveBuf) \cup Range(saveOld))
  \cap IDPool

FreeNumbers(used) == {n \in 1..PoolSize : IDName(n) \notin used}

\* createUniqueID returning nil error: an identifier that collides with none in use
createUniqueID(used) ==
  LET free == FreeNumbers(used)
  IN IDName(CHOOSE n \in free : \A m \in free : n <= m)

\* ------------------------------------------------------------ local_slaves.go
\* SlaveStartLocalSlaves, had the clone of the parent's configuration kept its flag
SlaveStartLocalSlavesInherited(parent) == parent

\* config.StartLocalSlaves of a slave whose parent has flag parent (line 68)
SlaveStartLocalSlaves(parent) == FALSE

\* slaveService as NewService(log, config, true) returns it for peer p, its goroutine launched
NewSlave(p, masterAddr, parent) ==
  [ID |-> p.ID, DataDir |-> p.DataDir, MasterAddress |-> masterAddr,
   StartLocalSlaves |-> SlaveStartLocalSlaves(parent), st |-> "launched", spawned |-> FALSE]

\* MasterHost, had the default for an unset own address been left out
MasterHostOwn(own) == own

\* the host of masterAddr (lines 55-58)
MasterHost(own) == IF own = <<>> THEN LoopbackChars ELSE own

\* masterAddr of startLocalSlaves (lines 55-59)
MasterAddr(own, port) == JoinHostPort(MasterHost(own), Itoa(port))

\* IsSelf, had the loop started a slave for every peer of the list
IsSelfNever(p, self) == FALSE

\* the condition of line 61 under which the loop skips peer p
IsSelf(p, self) == p.ID = self

\* the indexes of the loop of startLocalSlaves that are not skipped
NotSelf(peers, self) == {i \in 1..Len(peers) : ~IsSelf(peers[i], self)}

RECURSIVE StartLoop(_, _, _, _, _, _)
\* the loop of startLocalSlaves from index i on: the slave services started, in order;
\* failed is the set of indexes at which NewService returns an error
StartLoop(peers, i, self, masterAddr, parent, failed) ==
  IF i > Len(peers) THEN <<>>
  ELSE (IF IsSelf(peers[i], self) \/ i \in failed
        THEN <<>>
        ELSE <<NewSlave(peers[i], masterAddr, parent)>>)
       \o StartLoop(peers, i + 1, self, masterAddr, parent, failed)

\* os.MkdirAll(dir, 0755) creates the directory (line 69; its error is not looked at)
MkdirAll(dir) == dir \in DOMAIN slaveSetup => slaveSetup[dir] # "notdir"

\* the indexes of the loop at which the data directory exists after line 69
Made(peers, self) == {i \in NotSelf(peers, self) : MkdirAll(peers[i].DataDir)}

\* startLocalSlaves, had a NewService error ended the loop (return where line 73 continues)
startLocalSlavesAbort(peers, failed, kind, idFailed) ==
  LET masterAddr == MasterAddr(OwnAddress, announcePort)
      reached == {i \in 1..Len(peers) : \A j \in failed : i < j}
      started == StartLoop(Prefix(peers, Cardinality(reached)), 1, ID, masterAddr,
                           StartLocalSlaves, {})
  IN /\ slaves' = slaves \o started
     /\ wg' = wg + Len(started)
     /\ dirs' = dirs \cup {peers[i].DataDir : i \in Made(peers, ID)}
     /\ orch' = [kind |-> kind, peers |-> peers, self |-> ID, masterAddr |-> masterAddr,
                 size |-> AgencySize, idFailed |-> idFailed, newFailed |-> failed]

\* startLocalSlaves(wg, peers), NewService failing at the indexes in failed
startLocalSlaves(peers, failed, kind, idFailed) ==
  LET masterAddr == MasterAddr(OwnAddress, announcePort)
      started == StartLoop(peers, 1, ID, masterAddr, StartLocalSlaves, failed)
  IN /\ slaves' = slaves \o started
     /\ wg' = wg + Len(started)
     /\ dirs' = dirs \cup {peers[i].DataDir : i \in Made(peers, ID)}
     /\ orch' = [kind |-> kind, peers |-> peers, self |-> ID, masterAddr |-> masterAddr,
                 size |-> AgencySize, idFailed |-> idFailed, newFailed |-> failed]

\* FirstSlaveIndex, had the loop counted the invoking process as a slave
FirstSlaveIndexOne == 2 - 1

\* the first index of the loop of createAndStartLocalSlaves (line 37)
FirstSlaveIndex == 2

RECURSIVE CreateLoop(_, _, _, _)
\* the loop of createAndStartLocalSlaves from index on: the peers appended;
\* idFailed is the set of indexes at which createUniqueID returns an error
CreateLoop(index, n, used, idFailed) ==
  IF index > n THEN <<>>
  ELSE IF index \in idFailed
       THEN CreateLoop(index + 1, n, used, idFailed)
       ELSE LET id == createUniqueID(used)
            IN <<NewPeer(id, JoinPath(MasterDir, LocalSlaveName(index - 1)))>>
                 \o CreateLoop(index + 1, n, used \cup {id}, idFailed)

\* createAndStartLocalSlaves(wg)
createAndStartLocalSlaves(idFailed, failed) ==
  startLocalSlaves(CreateLoop(FirstSlaveIndex, AgencySize, UsedIDs, idFailed), failed,
                   "create", idFailed)

NoOrch ==
  [kind |-> "none", peers |-> <<>>, self |-> "", masterAddr |-> <<>>, size |-> 0,
   idFailed |-> {}, newFailed |-> {}]

\* ------------------------------------------------------------ setup_config.go
\* relaunch, line 71: ioutil.ReadFile returned no error
Readable(b) == b # NoFile

\* VersionAccepted, had relaunch not compared the version
VersionAcceptedAny(v) == TRUE

\* relaunch, line 75
VersionAccepted(v) == v = SetupConfigVersion

\* relaunch decides to relaunch from content b
Relaunchable(b) == Readable(b) /\ Parses(b) /\ VersionAccepted(Unmarshal(b).Version)

\* where relaunch goes when the file cannot be read, cannot be parsed, is outdated
OnReadError == "fresh"
\* OnUnmarshalError, had relaunch ended the process on a file it cannot parse
OnUnmarshalErrorFatal == "fatal"
OnUnmarshalError == "fresh"
OnOutdated == "fresh"
RejectTarget(b) ==
  IF ~Readable(b) THEN OnReadError
  ELSE IF ~Parses(b) THEN OnUnmarshalError
  ELSE OnOutdated

Alive == pc \notin {"terminated", "fatal"}

\* ReadFileLeaves, had relaunch removed the setup file once it had read it
ReadFileRemoves(b) == NoFile

\* the content of the setup file after ioutil.ReadFile returned content b (line 71)
ReadFileLeaves(b) == b

\* relaunch, lines 71-75 and 89-94: read, decode and check the version
RelaunchRead ==
  /\ pc = "relaunch"
  /\ setupFile' = ReadFileLeaves(setupFile)
  /\ LET b == setupFile IN
       IF Relaunchable(b)
       THEN /\ cfg' = Unmarshal(b)
            /\ pc' = "rl_apply"
            /\ outcome' = outcome
       ELSE /\ cfg' = cfg
            /\ pc' = RejectTarget(b)
            /\ outcome' = IF RejectTarget(b) = "fresh" THEN "false" ELSE outcome
  /\ UNCHANGED <<svcVars, ctxCancelled, httpServer, wg, slaves, orch, saveVars, slaveSetup,
                 dirs, restarts, clientVars>>

\* what relaunch installs from cfg, lines 76-78
RestoredPeers(c) == c.Peers
\* RestoredID, had relaunch not yet assigned s.ID when it starts the HTTP server
RestoredIDPending(c) == ID
RestoredID(c) == c.ID
\* RestoredAgencySize, had relaunch left the configured AgencySize in place
RestoredAgencySizeConfigured(c) == AgencySize
RestoredAgencySize(c) == c.Peers.AgencySize

RelaunchApply ==
  /\ pc = "rl_apply"
  /\ myPeers' = RestoredPeers(cfg)
  /\ ID' = RestoredID(cfg)
  /\ AgencySize' = RestoredAgencySize(cfg)
  /\ pc' = "rl_http"
  /\ UNCHANGED <<StartLocalSlaves, OwnAddress, announcePort, ctxCancelled, httpServer, cfg,
                 wg, slaves, orch, outcome, saveVars, fsVars, restarts, clientVars>>

\* relaunch, line 80: s.startHTTPServer()
RelaunchHTTP ==
  /\ pc = "rl_http"
  /\ httpServer' = TRUE
  /\ pc' = "rl_slaves"
  /\ UNCHANGED <<svcVars, ctxCancelled, cfg, wg, slaves, orch, outcome, saveVars, fsVars,
                 restarts, clientVars>>

\* relaunch, line 82: the condition under which startLocalSlaves is called
RelaunchStartsSlaves(c) == c.StartLocalSlaves
\* RelaunchSlavePeers, had relaunch allocated new peers as a fresh start does
RelaunchSlavePeersFresh(c) == CreateLoop(FirstSlaveIndex, c.Peers.AgencySize, UsedIDs, {})

\* relaunch, line 83: the peers handed to startLocalSlaves
RelaunchSlavePeers(c) == c.Peers.Peers

\* relaunch, lines 81-84
RelaunchSlaves ==
  /\ pc = "rl_slaves"
  /\ IF RelaunchStartsSlaves(cfg)
     THEN \E failed \in SUBSET NotSelf(RelaunchSlavePeers(cfg), ID) :
            startLocalSlaves(RelaunchSlavePeers(cfg), failed, "relaunch", {})
     ELSE UNCHANGED <<slaves, wg, dirs, orch>>
  /\ pc' = "rl_run"
  /\ UNCHANGED <<svcVars, ctxCancelled, httpServer, cfg, outcome, saveVars, setupFile,
                 slaveSetup, restarts, clientVars>>

\* s.startRunning(runner) is entered: the runner starts the database servers
StartRunning ==
  /\ pc \in {"rl_run", "fr_run"}
  /\ pc' = IF pc = "rl_run" THEN "rl_running" ELSE "fr_running"
  /\ UNCHANGED <<svcVars, ctxCancelled, httpServer, cfg, wg, slaves, orch, outcome,
                 saveVars, fsVars, restarts, clientVars>>

\* s.startRunning(runner) returns: it blocks until s.ctx is cancelled
StopRunning ==
  /\ pc \in {"rl_running", "fr_running"}
  /\ savePc = "idle"
  /\ ctxCancelled
  /\ pc' = IF pc = "rl_running" THEN "rl_wait" ELSE "fr_wait"
  /\ UNCHANGED <<svcVars, ctxCancelled, httpServer, cfg, wg, slaves, orch, outcome,
                 saveVars, fsVars, restarts, clientVars>>

\* WaitReleased, had relaunch returned without waiting for the wait group
WaitReleasedAlways(n) == TRUE

\* WaitReleased, had a wg.Add without its wg.Done kept the counter from reaching zero
WaitReleasedNever(n) == FALSE

\* wg.Wait() returns when the counter is zero
WaitReleased(n) == n = 0

\* relaunch, lines 86-87 (and the join of the fresh start): wg.Wait(), then return
WaitDone ==
  /\ pc \in {"rl_wait", "fr_wait"}
  /\ WaitReleased(wg)
  /\ pc' = "terminated"
  /\ outcome' = IF pc = "rl_wait" THEN "true" ELSE outcome
  /\ httpServer' = FALSE
  /\ UNCHANGED <<svcVars, ctxCancelled, cfg, wg, slaves, orch, saveVars, fsVars,
                 restarts, clientVars>>

\* ---------------------------------------------------------------- saveSetup
NoSave == [by |-> -1, ID |-> "", Peers |-> NoPeers, StartLocalSlaves |-> FALSE]

\* the cfg saveSetup builds, lines 49-54
SavedVersion == SetupConfigVersion
SavedFlag == StartLocalSlaves
SaveCfg == SetupConfigFile(SavedVersion, ID, myPeers, SavedFlag)

\* the content of the file right after ioutil.WriteFile opened it: O_TRUNC empties it
Opened(old) == <<>>

\* saveSetup, lines 49-60: marshal, then ioutil.WriteFile opens the file
SaveBegin ==
  /\ pc \in {"fr_save", "fr_running", "rl_running"}
  /\ savePc = "idle"
  /\ savePc' = "open"
  /\ saveBuf' = Marshal(SaveCfg)
  /\ saveOld' = setupFile
  /\ saved' = NoSave
  /\ setupFile' = Opened(setupFile)
  /\ UNCHANGED <<svcVars, runVars, slaveSetup, dirs, restarts, clientVars>>

Min(a, b) == IF a < b THEN a ELSE b

\* ioutil.WriteFile: one write(2) call appends the next tokens
SaveWrite ==
  /\ savePc = "open"
  /\ LET k == Min(WriteChunk, Len(saveBuf)) IN
       /\ setupFile' = setupFile \o Prefix(saveBuf, k)
       /\ saveBuf' = Suffix(saveBuf, k)
       /\ IF k = Len(saveBuf)
          THEN /\ savePc' = "idle"
               /\ saveOld' = <<>>
               /\ saved' = [by |-> restarts, ID |-> ID, Peers |-> myPeers,
                            StartLocalSlaves |-> StartLocalSlaves]
               /\ pc' = IF pc = "fr_save" THEN "fr_run" ELSE pc
          ELSE UNCHANGED <<savePc, saveOld, saved, pc>>
  /\ UNCHANGED <<svcVars, ctxCancelled, httpServer, cfg, wg, slaves, orch, outcome,
                 slaveSetup, dirs, restarts, clientVars>>

\* ioutil.WriteFile returns an error (lines 60-63): saveSetup returns it, the caller goes on
SaveFail ==
  /\ savePc = "open"
  /\ savePc' = "idle"
  /\ saveBuf' = <<>>
  /\ saveOld' = <<>>
  /\ pc' = IF pc = "fr_save" THEN "fr_run" ELSE pc
  /\ UNCHANGED <<svcVars, ctxCancelled, httpServer, cfg, wg, slaves, orch, outcome, saved,
                 fsVars, restarts, clientVars>>

\* ----------------------------------------------------- the fresh start of Run
\* relaunch returned false: the service takes its own identity and starts the HTTP server
FreshStart ==
  /\ pc = "fresh"
  /\ ID' = createUniqueID(UsedIDs)
  /\ httpServer' = TRUE
  /\ pc' = "fr_slaves"
  /\ UNCHANGED <<myPeers, AgencySize, StartLocalSlaves, OwnAddress, announcePort,
                 ctxCancelled, cfg, wg, slaves, orch, outcome, saveVars, fsVars, restarts,
                 clientVars>>

\* the master creates its local slaves when configured to
FreshSlaves ==
  /\ pc = "fr_slaves"
  /\ IF StartLocalSlaves
     THEN \E idFailed \in SUBSET (FirstSlaveIndex..AgencySize) :
            LET peers == CreateLoop(FirstSlaveIndex, AgencySize, UsedIDs, idFailed)
            IN \E failed \in SUBSET NotSelf(peers, ID) :
                 createAndStartLocalSlaves(idFailed, failed)
     ELSE UNCHANGED <<slaves, wg, dirs, orch>>
  /\ pc' = "fr_negotiate"
  /\ UNCHANGED <<svcVars, ctxCancelled, httpServer, cfg, outcome, saveVars, setupFile,
                 slaveSetup, restarts, clientVars>>

\* the peers that registered with the master: itself and every slave that runs
RegisteredPeers ==
  <<NewPeer(ID, MasterDir)>>
    \o [i \in 1..Len(slaves) |-> NewPeer(slaves[i].ID, slaves[i].DataDir)]

\* negotiation ends: the peer registry is committed
Negotiate ==
  /\ pc = "fr_negotiate"
  /\ \A i \in 1..Len(slaves) : slaves[i].st # "launched"
  /\ myPeers' = NewPeers(RegisteredPeers, AgencySize)
  /\ pc' = "fr_save"
  /\ UNCHANGED <<ID, AgencySize, StartLocalSlaves, OwnAddress, announcePort, ctxCancelled,
                 httpServer, cfg, wg, slaves, orch, outcome, saveVars, fsVars, restarts,
                 clientVars>>

\* ------------------------------------------------------------ the slaves' Run
\* SlaveCtxDone, had the slaves been run under context.Background()
SlaveCtxNever == FALSE

\* the context slaveService.Run is given is done (local_slaves.go line 78: s.ctx)
SlaveCtxDone == ctxCancelled

\* whether a slave with flag own, finding setup in its directory, starts slaves of its own:
\* relaunch goes by the record's flag, a fresh start by the slave's own
SlaveSpawns(setup, own) ==
  IF setup \in {"absent", "notdir"} THEN own ELSE setup = "flagged"

\* the setup.json a slave with flag own saves
SlaveSaves(own) == IF own THEN "flagged" ELSE "plain"

\* slaveService.Run(s.ctx) up to its running state: relaunch from the slave's own setup
\* file, or a fresh start as a slave that registers and saves its setup
SlaveRun(i) ==
  /\ i \in 1..Len(slaves)
  /\ slaves[i].st = "launched"
  /\ LET sl == slaves[i]
         setup == slaveSetup[sl.DataDir]
     IN /\ slaves' = [slaves EXCEPT ![i].st = "running",
                                    ![i].spawned = SlaveSpawns(setup, sl.StartLocalSlaves)]
        /\ slaveSetup' = IF setup = "absent"
                         THEN [slaveSetup EXCEPT ![sl.DataDir] = SlaveSaves(sl.StartLocalSlaves)]
                         ELSE slaveSetup
  /\ UNCHANGED <<svcVars, ctxCancelled, httpServer, pc, cfg, wg, orch, outcome, saveVars,
                 setupFile, dirs, restarts, clientVars>>

\* slaveService.Run returns and the deferred wg.Done() runs (lines 76-79)
SlaveExit(i) ==
  /\ i \in 1..Len(slaves)
  /\ slaves[i].st = "running"
  /\ SlaveCtxDone
  /\ slaves' = [slaves EXCEPT ![i].st = "exited"]
  /\ wg' = wg - 1
  /\ UNCHANGED <<svcVars, ctxCancelled, httpServer, pc, cfg, orch, outcome, saveVars,
                 fsVars, restarts, clientVars>>

\* ------------------------------------------------- shutdown, crash, restart
\* POST shutdown on the control-plane API cancels s.ctx
Shutdown ==
  /\ Alive
  /\ httpServer
  /\ ~ctxCancelled
  /\ ctxCancelled' = TRUE
  /\ UNCHANGED <<svcVars, httpServer, pc, cfg, wg, slaves, orch, outcome, saveVars, fsVars,
                 restarts, clientVars>>

\* an interrupt signal cancels s.ctx
Interrupt ==
  /\ Alive
  /\ ~ctxCancelled
  /\ ctxCancelled' = TRUE
  /\ UNCHANGED <<svcVars, httpServer, pc, cfg, wg, slaves, orch, outcome, saveVars, fsVars,
                 restarts, clientVars>>

\* a Service as NewService returns it for the master, before Run
Construct(n, flag, own, port) ==
  /\ ID' = ""
  /\ myPeers' = NoPeers
  /\ AgencySize' = n
  /\ StartLocalSlaves' = flag
  /\ OwnAddress' = own
  /\ announcePort' = port
  /\ ctxCancelled' = FALSE
  /\ httpServer' = FALSE
  /\ cfg' = NoCfg
  /\ wg' = 0
  /\ slaves' = <<>>
  /\ orch' = NoOrch
  /\ savePc' = "idle"
  /\ saveBuf' = <<>>
  /\ saveOld' = <<>>

\* the OS process dies at any point: its goroutines (the slaves) die with it, the files stay
Crash ==
  /\ Alive
  /\ Construct(0, FALSE, <<>>, 0)
  /\ pc' = "terminated"
  /\ outcome' = "crashed"
  /\ UNCHANGED <<saved, fsVars, restarts, clientVars>>

\* the starter is started again on the same data directory
RestartWith(sizes, owns) ==
  /\ ~Alive
  /\ restarts < MaxRestarts
  /\ restarts' = restarts + 1
  /\ \E n \in sizes, flag \in BOOLEAN, own \in owns, port \in Ports :
       Construct(n, flag, own, port)
  /\ pc' = "relaunch"
  /\ outcome' = "none"
  /\ UNCHANGED <<saved, fsVars, clientVars>>

\* ---------------------------------------------------- WaitUntilStarterGone
Threshold == 2

\* WaitUntilStarterGone is called
WaitStart ==
  /\ gonePc = "idle"
  /\ gonePc' = "polling"
  /\ failures' = 0
  /\ recent' = <<>>
  /\ UNCHANGED <<svcVars, runVars, saveVars, fsVars, restarts, noted, readyVars, procVars>>

\* CountFailures, had a successful query left the count as it was
CountFailuresNoReset(f, ok) == IF ok THEN f ELSE f + 1

\* the failure count after a query with result ok (lines 193-198)
CountFailures(f, ok) == IF ok THEN 0 ELSE f + 1
\* the loop ends (line 199)
DeclaredGone(f) == f > Threshold

\* one iteration of the loop: a version query (it can fail while the starter is up, it
\* cannot succeed while the HTTP server is down), the count, the test, the sleep
WaitPoll ==
  /\ gonePc = "polling"
  /\ \E ok \in (IF httpServer THEN BOOLEAN ELSE {FALSE}) :
       /\ failures' = CountFailures(failures, ok)
       /\ recent' = (IF Len(recent) < 3 THEN recent ELSE Tail(recent)) \o <<ok>>
       /\ gonePc' = IF DeclaredGone(CountFailures(failures, ok)) THEN "gone" ELSE "polling"
  /\ UNCHANGED <<svcVars, runVars, saveVars, fsVars, restarts, noted, readyVars, procVars>>

\* ------------------------------------------------------------ the test harness
NoNote == [run |-> -1, AgencySize |-> 0]

\* the harness records the agency size it passed to the process it has just started
NoteConfig ==
  /\ pc = "relaunch"
  /\ noted.run # restarts
  /\ noted' = [run |-> restarts, AgencySize |-> AgencySize]
  /\ UNCHANGED <<svcVars, runVars, saveVars, fsVars, restarts, goneVars, readyVars, procVars>>

\* ---------------------------------------------------- WaitUntilStarterReady
whatCluster == "cluster"
whatSingle == "single server"
Whats == {whatCluster, whatSingle}

ReadyPhrase == "can now be accessed with a browser at"

\* the words of the regular expression compiled on line 116
Pattern(w) == <<"Your", w, ReadyPhrase>>

\* the readiness line a starter of the given role prints
ReadyLine(role) == <<"Your", role, ReadyPhrase, "http://localhost:8528">>

\* the regular expression matches somewhere in the line
Matches(pat, line) ==
  \E k \in 1..(Len(line) - Len(pat) + 1) : SubSeq(line, k, k + Len(pat) - 1) = pat

\* ExpectTimeout finds the pattern in what starter st has printed
Found(st, w) == \E k \in 1..Len(st.out) : Matches(Pattern(w), st.out[k].text)

\* WaitUntilStarterReady(t, what, starters...) is called on processes already spawned
ReadyCall ==
  /\ readyPc = "idle"
  /\ \E w \in Whats, n \in 0..MaxStarters :
       \E roles \in [1..n -> Whats] :
         /\ what' = w
         /\ starters' = [i \in 1..n |-> [role |-> roles[i], out |-> <<>>]]
  /\ expects' = <<>>
  /\ g' = 0
  /\ result' = TRUE
  /\ readyPc' = "loop"
  /\ UNCHANGED <<svcVars, runVars, saveVars, fsVars, restarts, goneVars, noted, procVars>>

\* a starter that is ready prints its readiness line, once; the line is late when the
\* ExpectTimeout reading this starter has already timed out
StarterPrints(i) ==
  /\ readyPc # "idle"
  /\ i \in 1..Len(starters)
  /\ starters[i].out = <<>>
  /\ LET late == i <= Len(expects) /\ expects[i] = "timedout"
     IN starters' = [starters EXCEPT ![i].out =
                       <<[text |-> ReadyLine(starters[i].role), late |-> late]>>]
  /\ UNCHANGED <<svcVars, runVars, saveVars, fsVars, restarts, goneVars, noted, what,
                 expects, g, result, readyPc, procVars>>

\* one iteration of the loop of lines 111-121: g.Add(1) and the goroutine is launched
ReadyLaunch ==
  /\ readyPc = "loop"
  /\ Len(expects) < Len(starters)
  /\ g' = g + 1
  /\ expects' = Append(expects, "waiting")
  /\ UNCHANGED <<svcVars, runVars, saveVars, fsVars, restarts, goneVars, noted, what,
                 starters, result, readyPc, procVars>>

\* the loop ends and g.Wait() is called
ReadyLoopEnd ==
  /\ readyPc = "loop"
  /\ Len(expects) = Len(starters)
  /\ readyPc' = "wait"
  /\ UNCHANGED <<svcVars, runVars, saveVars, fsVars, restarts, goneVars, noted, what,
                 starters, expects, g, result, procVars>>

\* ExpectTimeout returns a match: the goroutine ends, its deferred g.Done() runs
ExpectMatch(i) ==
  /\ i \in 1..Len(expects)
  /\ expects[i] = "waiting"
  /\ Found(starters[i], what)
  /\ expects' = [expects EXCEPT ![i] = "matched"]
  /\ g' = g - 1
  /\ UNCHANGED <<svcVars, runVars, saveVars, fsVars, restarts, goneVars, noted, what,
                 starters, result, readyPc, procVars>>

\* OnTimeout, had the goroutine only logged the error
OnTimeoutLogged(r) == r

\* the value the goroutine leaves in result when ExpectTimeout returns an error (line 117)
OnTimeout(r) == FALSE

\* ExpectTimeout returns an error, the pattern not found within the minute: result is
\* set (every goroutine that writes it writes false), then the deferred g.Done() runs
ExpectFail(i) ==
  /\ i \in 1..Len(expects)
  /\ expects[i] = "waiting"
  /\ ~Found(starters[i], what)
  /\ expects' = [expects EXCEPT ![i] = "timedout"]
  /\ result' = OnTimeout(result)
  /\ g' = g - 1
  /\ UNCHANGED <<svcVars, runVars, saveVars, fsVars, restarts, goneVars, noted, what,
                 starters, readyPc, procVars>>

ExpectStep(i) == ExpectMatch(i) \/ ExpectFail(i)

\* g.Wait() returns and WaitUntilStarterReady returns result (lines 122-123)
ReadyReturn ==
  /\ readyPc = "wait"
  /\ WaitReleased(g)
  /\ readyPc' = "returned"
  /\ UNCHANGED <<svcVars, runVars, saveVars, fsVars, restarts, goneVars, noted, what,
                 starters, expects, g, result, procVars>>

\* ------------------------------------------------------------- testProcesses
NoTarget == [mode |-> "", tls |-> FALSE, agent |-> FALSE]
NoProcesses == <<>>

ServerTypeAgent == "agent"
ServerTypeCoordinator == "coordinator"
ServerTypeDBServer == "dbserver"
ServerTypeSingle == "single"

\* the starters a test runs: single or cluster mode, with or without TLS (--ssl.auto-key),
\* a cluster starter with or without an agent of its own
Targets ==
  {[mode |-> "single", tls |-> tls, agent |-> FALSE] : tls \in BOOLEAN}
    \cup {[mode |-> "cluster", tls |-> tls, agent |-> a] : tls \in BOOLEAN, a \in BOOLEAN}

ServerProcess(type, secure) == [Type |-> type, IsSecure |-> secure]

\* the process list a ready starter answers GET processes with: one descriptor per role
\* it runs, each with the starter's TLS setting
ListProcesses(t) ==
  IF t.mode = "single"
  THEN <<ServerProcess(ServerTypeSingle, t.tls)>>
  ELSE (IF t.agent THEN <<ServerProcess(ServerTypeAgent, t.tls)>> ELSE <<>>)
         \o <<ServerProcess(ServerTypeCoordinator, t.tls),
              ServerProcess(ServerTypeDBServer, t.tls)>>

\* processes.ServerByType(type): whether there is one, and the first of them
HasServer(ps, type) == \E k \in 1..Len(ps) : ps[k].Type = type
ServerByType(ps, type) ==
  ps[CHOOSE k \in 1..Len(ps) : ps[k].Type = type /\ \A j \in 1..(k - 1) : ps[j].Type # type]

\* testArangodReachable: the scheme of the URL it calls (lines 178-182)
Scheme(secure) == IF secure THEN "https" ELSE "http"

\* testArangodReachable reports a failure: the server of starter t answers on the scheme
\* of the starter's TLS setting only
Unreachable(sp, t) == Scheme(sp.IsSecure) # Scheme(t.tls)

\* SecureMismatch, had the test compared nothing
SecureMismatchIgnored(sp, sec) == FALSE

\* the IsSecure test of lines 110, 125, 142 and 159
SecureMismatch(sp, sec) == sp.IsSecure # sec

\* the failures one of the four blocks of testProcesses reports for servers of the given
\* type, which mode forbidden does not allow and mode required must have
CheckErrors(type, forbidden, required) ==
  IF HasServer(processes, type)
  THEN LET sp == ServerByType(processes, type) IN
         (IF SecureMismatch(sp, isSecure) THEN {<<"Invalid IsSecure", type>>} ELSE {})
           \cup (IF mode = forbidden
                 THEN {<<"not allowed", type>>}
                 ELSE IF Unreachable(sp, target) THEN {<<"Failed to reach", type>>} ELSE {})
  ELSE IF mode = required THEN {<<"not found", type>>} ELSE {}

\* testProcesses(t, c, mode, starterEndpoint, isSecure) is called on a ready starter:
\* lines 91-106, both queries answered
ProcCall ==
  /\ procPc = "idle"
  /\ \E t \in Targets, m \in {"single", "cluster"}, sec \in BOOLEAN :
       /\ target' = t
       /\ mode' = m
       /\ isSecure' = sec
       /\ processes' = ListProcesses(t)
  /\ errors' = {}
  /\ procPc' = "agent"
  /\ UNCHANGED <<svcVars, runVars, saveVars, fsVars, restarts, goneVars, noted, readyVars>>

\* one block of testProcesses, from position at to position to
CheckBlock(at, to, type, forbidden, required) ==
  /\ procPc = at
  /\ errors' = errors \cup CheckErrors(type, forbidden, required)
  /\ procPc' = to
  /\ UNCHANGED <<svcVars, runVars, saveVars, fsVars, restarts, goneVars, noted, readyVars,
                 target, mode, isSecure, processes>>

\* lines 108-121
CheckAgent == CheckBlock("agent", "coordinator", ServerTypeAgent, "single", "")
\* lines 123-138
CheckCoordinator ==
  CheckBlock("coordinator", "dbserver", ServerTypeCoordinator, "single", "cluster")
\* lines 140-155
CheckDBServer == CheckBlock("dbserver", "single", ServerTypeDBServer, "single", "cluster")
\* lines 157-172
CheckSingle == CheckBlock("single", "done", ServerTypeSingle, "cluster", "single")

\* ShutdownStarter: once the shutdown call has returned, WaitUntilStarterGone is called
WaitAfterShutdown ==
  /\ ctxCancelled
  /\ WaitStart

\* ----------------------------------------------------------- specifications
\* a setup file left by an earlier release: another version, two peers, slaves flagged
OlderRecord ==
  SetupConfigFile(OlderVersion, IDName(1),
                  NewPeers(<<NewPeer(IDName(1), MasterDir), NewPeer(IDName(2), SlaveDir(1))>>, 2),
                  TRUE)

InitFiles == {NoFile, Marshal(OlderRecord)}

InitFrom(sizes, owns, setups) ==
  /\ \E n \in sizes, flag \in BOOLEAN, own \in owns, port \in Ports :
       /\ ID = ""
       /\ myPeers = NoPeers
       /\ AgencySize = n
       /\ StartLocalSlaves = flag
       /\ OwnAddress = own
       /\ announcePort = port
  /\ ctxCancelled = FALSE
  /\ httpServer = FALSE
  /\ pc = "relaunch"
  /\ cfg = NoCfg
  /\ wg = 0
  /\ slaves = <<>>
  /\ orch = NoOrch
  /\ outcome = "none"
  /\ savePc = "idle"
  /\ saveBuf = <<>>
  /\ saveOld = <<>>
  /\ saved = NoSave
  /\ setupFile \in InitFiles
  /\ slaveSetup \in setups
  /\ dirs = {MasterDir}
  /\ restarts = 0
  /\ failures = 0
  /\ gonePc = "idle"
  /\ recent = <<>>
  /\ noted = NoNote
  /\ what = ""
  /\ starters = <<>>
  /\ expects = <<>>
  /\ g = 0
  /\ result = TRUE
  /\ readyPc = "idle"
  /\ target = NoTarget
  /\ mode = ""
  /\ isSecure = FALSE
  /\ processes = NoProcesses
  /\ errors = {}
  /\ procPc = "idle"

\* no slave has run in the data directory yet
NoSlaveSetup == [d \in SlaveDirs |-> "absent"]

InitWith(sizes, owns) == InitFrom(sizes, owns, {NoSlaveSetup})

\* the steps of the master's Run
MasterStep ==
  \/ RelaunchRead
  \/ RelaunchApply
  \/ RelaunchHTTP
  \/ RelaunchSlaves
  \/ StartRunning
  \/ StopRunning
  \/ WaitDone
  \/ SaveBegin
  \/ SaveWrite
  \/ FreshStart
  \/ FreshSlaves
  \/ Negotiate

\* the steps of the slaves' goroutines
SlaveStep ==
  \/ \E i \in 1..MaxAgency : SlaveRun(i)
  \/ \E i \in 1..MaxAgency : SlaveExit(i)

\* the starter with every agency size, its own address unset
Init == InitWith(1..MaxAgency, {<<>>})
Restart == RestartWith(1..MaxAgency, {<<>>})
Next ==
  \/ MasterStep
  \/ SlaveStep
  \/ SaveFail
  \/ Shutdown
  \/ Interrupt
  \/ Crash
  \/ Restart
Spec == Init /\ [][Next]_vars

\* the starter with every own address, shut down through the API only
InitAddr == InitWith(1..AddrAgency, OwnAddresses)
RestartAddr == RestartWith(1..AddrAgency, OwnAddresses)
NextAddr ==
  \/ MasterStep
  \/ SlaveStep
  \/ Shutdown
  \/ RestartAddr
SpecAddr == InitAddr /\ [][NextAddr]_vars

\* a single server (agency size 1) and a client waiting for it to be gone
InitGone == InitWith({1}, {<<>>})
RestartGone == RestartWith({1}, {<<>>})
NextGone ==
  \/ MasterStep
  \/ SaveFail
  \/ Shutdown
  \/ Interrupt
  \/ Crash
  \/ RestartGone
  \/ WaitStart
  \/ WaitPoll
SpecGone == InitGone /\ [][NextGone]_vars

\* the starter under the fair scheduling of its goroutines
InitLive == InitWith(1..LiveAgency, {<<>>})
RestartLive == RestartWith(1..LiveAgency, {<<>>})
NextLive ==
  \/ MasterStep
  \/ SlaveStep
  \/ Shutdown
  \/ Interrupt
  \/ Crash
  \/ RestartLive
SpecLive ==
  /\ InitLive
  /\ [][NextLive]_vars
  /\ \A i \in 1..MaxAgency : WF_vars(SlaveRun(i)) /\ WF_vars(SlaveExit(i))

\* the starter and a harness that knows the configuration it started it with
InitConf == InitWith(1..ConfAgency, {<<>>})
RestartConf == RestartWith(1..ConfAgency, {<<>>})
NextConf ==
  \/ MasterStep
  \/ SlaveStep
  \/ Shutdown
  \/ Crash
  \/ RestartConf
  \/ NoteConfig
SpecConf == InitConf /\ [][NextConf]_vars

\* the starter shut down through the API by a client that then waits for it to be gone,
\* under the fair scheduling of the goroutines of the starter and of the client
InitShut == InitWith(1..ShutAgency, {<<>>})
\* the harness starts the starter again only when it is not inside WaitUntilStarterGone
RestartShut == gonePc = "idle" /\ RestartWith(1..ShutAgency, {<<>>})
NextShut ==
  \/ MasterStep
  \/ SlaveStep
  \/ Shutdown
  \/ RestartShut
  \/ WaitAfterShutdown
  \/ WaitPoll
SpecShut ==
  /\ InitShut
  /\ [][NextShut]_vars
  /\ WF_vars(MasterStep)
  /\ SF_vars(StopRunning)
  /\ WF_vars(SlaveStep)
  /\ WF_vars(WaitPoll)

\* a test waiting for the starters it spawned to be ready, its goroutines scheduled fairly
InitReady == InitWith({1}, {<<>>}) /\ ~StartLocalSlaves /\ setupFile = NoFile
NextReady ==
  \/ ReadyCall
  \/ \E i \in 1..MaxStarters : StarterPrints(i)
  \/ ReadyLaunch
  \/ ReadyLoopEnd
  \/ \E i \in 1..MaxStarters : ExpectMatch(i)
  \/ \E i \in 1..MaxStarters : ExpectFail(i)
  \/ ReadyReturn
SpecReady ==
  /\ InitReady
  /\ [][NextReady]_vars
  /\ WF_vars(ReadyLaunch)
  /\ WF_vars(ReadyLoopEnd)
  /\ \A i \in 1..MaxStarters : WF_vars(ExpectStep(i))
  /\ WF_vars(ReadyReturn)

\* a test calling testProcesses on a ready starter
InitProc == InitWith({1}, {<<>>}) /\ ~StartLocalSlaves /\ setupFile = NoFile
NextProc ==
  \/ ProcCall
  \/ CheckAgent
  \/ CheckCoordinator
  \/ CheckDBServer
  \/ CheckSingle
SpecProc == InitProc /\ [][NextProc]_vars

\* the starter on a data directory in which regular files can stand at the paths of the
\* slaves' directories
BlockedSetups ==
  {[d \in SlaveDirs |-> IF d \in B THEN "notdir" ELSE "absent"] :
     B \in SUBSET {SlaveDir(k) : k \in 1..(DirsAgency - 1)}}
InitDirs == InitFrom(1..DirsAgency, {<<>>}, BlockedSetups)
RestartDirs == RestartWith(1..DirsAgency, {<<>>})
NextDirs ==
  \/ MasterStep
  \/ SlaveStep
  \/ Shutdown
  \/ RestartDirs
SpecDirs == InitDirs /\ [][NextDirs]_vars

\* ------------------------------------------------------------------ claims
\* positions of relaunch after lines 76-78 installed the record
Applied ==
  \/ pc \in {"rl_http", "rl_slaves", "rl_run", "rl_running", "rl_wait"}
  \/ pc = "terminated" /\ outcome = "true"

\* positions of relaunch after lines 81-84
Orchestrated ==
  \/ pc \in {"rl_run", "rl_running", "rl_wait"}
  \/ pc = "terminated" /\ outcome = "true"

\* a saveSetup of an earlier process completed and its file still stands
SavedEarlier == saved # NoSave /\ saved.by < restarts

SlavePairs == {<<slaves[i].ID, slaves[i].DataDir>> : i \in 1..Len(slaves)}
PeerPairs(ps, idx) == {<<ps[i].ID, ps[i].DataDir>> : i \in idx}

Decides == pc = "relaunch" /\ pc' \notin {"relaunch", "terminated"}

NothingApplied ==
  /\ pc' = "fresh"
  /\ outcome' = "false"
  /\ UNCHANGED <<ID, myPeers, AgencySize, httpServer, slaves, wg, orch, dirs>>

\* C2: when the setup file parses but carries another version, relaunch returns false and
\* leaves ID, myPeers and AgencySize unchanged, with no HTTP server, slave or runner started.
C2_VersionGate ==
  [][(/\ Decides
      /\ Readable(setupFile)
      /\ Parses(setupFile)
      /\ Unmarshal(setupFile).Version # SetupConfigVersion) => NothingApplied]_vars

C2_Witness ==
  /\ pc = "fresh"
  /\ outcome = "false"
  /\ Parses(setupFile)
  /\ Unmarshal(setupFile).Version = OlderVersion
  /\ Unmarshal(setupFile).StartLocalSlaves
  /\ ID = "" /\ myPeers = NoPeers /\ ~httpServer /\ slaves = <<>>

\* C3: when the setup file does not exist or cannot be parsed, relaunch returns false (it
\* never ends the process) and leaves ID, myPeers and AgencySize unchanged, with no HTTP
\* server, slave or runner started.
C3_MissingOrCorrupt ==
  [][(Decides /\ (~Readable(setupFile) \/ ~Parses(setupFile))) => NothingApplied]_vars

C3_Witness ==
  /\ pc = "fresh"
  /\ outcome = "false"
  /\ Readable(setupFile)
  /\ ~Parses(setupFile)
  /\ Len(setupFile) > 0
  /\ ID = "" /\ myPeers = NoPeers /\ ~httpServer /\ slaves = <<>>

\* C4 as stated: at every point of a saveSetup (where a reader can read, or the process
\* can die) the file holds the complete prior content or the complete new record, and the
\* file is never left partly written.
C4_AtomicReplace ==
  /\ savePc = "open" => setupFile \in {saveOld, setupFile \o saveBuf}
  /\ setupFile = NoFile \/ Parses(setupFile)

Max(a, b) == IF a > b THEN a ELSE b

SlavesDistinct ==
  /\ \A i, j \in 1..Len(slaves) :
       i # j => slaves[i].ID # slaves[j].ID /\ slaves[i].DataDir # slaves[j].DataDir
  /\ \A i \in 1..Len(slaves) : slaves[i].ID # orch.self /\ slaves[i].DataDir # MasterDir

\* C5 as stated: createAndStartLocalSlaves with AgencySize = N launches exactly N-1 slaves
\* (zero when N <= 1), with distinct identifiers and data directories, none the parent's.
C5_ExactlyNMinusOne ==
  orch.kind = "create" =>
    /\ Len(slaves) = Max(orch.size - 1, 0)
    /\ SlavesDistinct

\* C5 amended: createAndStartLocalSlaves with AgencySize = N launches N-1 slaves less one
\* for every index at which createUniqueID or NewService fails (so exactly N-1 when none
\* fails, zero when N <= 1), with distinct identifiers and data directories, none the
\* parent's.
C5_SlaveCount ==
  orch.kind = "create" =>
    /\ Len(slaves) =
         Max(orch.size - 1, 0) - Cardinality(orch.idFailed) - Cardinality(orch.newFailed)
    /\ Len(slaves) <= Max(orch.size - 1, 0)
    /\ SlavesDistinct

C5_Witness ==
  /\ orch.kind = "create"
  /\ orch.size = 3
  /\ orch.idFailed = {} /\ orch.newFailed = {}
  /\ Len(slaves) = 2

\* C6 as stated: on a relaunch whose record has start-local-slaves set, the slaves
\* started are exactly the persisted peers other than the restored ID, none of them new;
\* with the flag not set no slave is started.
C6_RestoredPeersExactly ==
  Orchestrated =>
    IF cfg.StartLocalSlaves
    THEN /\ orch.kind = "relaunch"
         /\ orch.peers = cfg.Peers.Peers
         /\ SlavePairs = PeerPairs(cfg.Peers.Peers, NotSelf(cfg.Peers.Peers, cfg.ID))
    ELSE slaves = <<>> /\ orch.kind = "none"

\* C6 amended: on a relaunch whose record has start-local-slaves set, startLocalSlaves is
\* given the restored peer list, and the slaves started are exactly the persisted peers
\* other than the restored ID whose NewService succeeded, none of them new; with the flag
\* not set no slave is started.
C6_RestoredPeers ==
  Orchestrated =>
    IF cfg.StartLocalSlaves
    THEN /\ orch.kind = "relaunch"
         /\ orch.peers = cfg.Peers.Peers
         /\ SlavePairs =
              PeerPairs(cfg.Peers.Peers, NotSelf(cfg.Peers.Peers, cfg.ID) \ orch.newFailed)
         /\ Len(slaves) = Cardinality(SlavePairs)
         /\ \A i \in 1..Len(slaves) : slaves[i].ID \in PeerIDs(cfg.Peers.Peers) \ {cfg.ID}
    ELSE slaves = <<>> /\ orch.kind = "none"

C6_Witness ==
  /\ pc = "rl_running"
  /\ cfg.StartLocalSlaves
  /\ Len(cfg.Peers.Peers) = 3
  /\ Len(slaves) = 2
  /\ orch.newFailed = {}

AllSlavesExited == \A i \in 1..Len(slaves) : slaves[i].st = "exited"

\* C7: once the parent's context is cancelled, every slave started by startLocalSlaves
\* eventually has stopped and the wait group is released.
C7_CancelPropagates == ctxCancelled ~> (AllSlavesExited /\ wg = 0)

C7_Witness ==
  /\ ctxCancelled
  /\ Len(slaves) >= 1
  /\ AllSlavesExited
  /\ wg = 0
  /\ pc \in {"rl_wait", "fr_wait"}

RECURSIVE TrailingFailures(_)
TrailingFailures(r) ==
  IF r = <<>> \/ r[Len(r)] THEN 0 ELSE 1 + TrailingFailures(Prefix(r, Len(r) - 1))

\* C8: WaitUntilStarterGone has returned exactly when the three most recent queries all
\* failed; a successful query resets the count to zero, so two failures followed by a
\* success do not end the loop.
C8_Debounce ==
  /\ gonePc = "gone" <=> (Len(recent) = 3 /\ \A i \in 1..3 : ~recent[i])
  /\ (gonePc = "polling" /\ recent # <<>> /\ recent[Len(recent)]) => failures = 0
  /\ gonePc = "polling" => failures = TrailingFailures(recent)

C8_Witness ==
  /\ gonePc = "polling"
  /\ recent = <<FALSE, FALSE, TRUE>>
  /\ failures = 0

\* C9: every slave of an orchestration is given the same master address; its host is
\* 127.0.0.1 when the parent's own address is unset and the own address itself when it
\* is set, and its port is the announce port.
C9_MasterAddress ==
  \A i \in 1..Len(slaves) :
    LET a == slaves[i].MasterAddress IN
      /\ a = orch.masterAddr
      /\ HostOf(a) = (IF OwnAddress = <<>> THEN LoopbackChars ELSE OwnAddress)
      /\ PortOf(a) = Itoa(announcePort)
      /\ Len(a) = Len(HostOf(a)) + 1 + Len(PortOf(a)) + (IF a[1] = "[" THEN 2 ELSE 0)

C9_Witness ==
  /\ Len(slaves) = 2
  /\ OwnAddress = <<>>
  /\ slaves[1].MasterAddress = LoopbackChars \o <<":", "8", "5", "2", "8">>
  /\ slaves[2].MasterAddress = slaves[1].MasterAddress

\* C10: every slave is constructed with StartLocalSlaves = false whatever the parent's
\* setting, and no slave, freshly started or relaunched, starts slaves of its own.
C10_DepthOne ==
  /\ \A i \in 1..Len(slaves) : ~slaves[i].StartLocalSlaves /\ ~slaves[i].spawned
  /\ \A d \in SlaveDirs : slaveSetup[d] # "flagged"

C10_Witness ==
  /\ orch.kind = "relaunch"
  /\ StartLocalSlaves
  /\ Len(slaves) = 2
  /\ \A i \in 1..Len(slaves) : slaves[i].st = "running"

\* the slaves started, as the set of (ID, data directory) pairs of the peers at indexes idx
StartedFor(idx) == \A i \in idx : <<orch.peers[i].ID, orch.peers[i].DataDir>> \in SlavePairs

\* C11: a createUniqueID failure at one index leaves out only the peer of that index, a
\* NewService failure for one peer leaves out only that slave; every other slave of the
\* orchestration is started and the parent goes on.
C11_FailureIsolation ==
  orch.kind # "none" =>
    /\ pc # "fatal"
    /\ StartedFor(NotSelf(orch.peers, orch.self) \ orch.newFailed)
    /\ orch.kind = "create" =>
         {orch.peers[i].DataDir : i \in 1..Len(orch.peers)}
           = {SlaveDir(k - 1) : k \in (FirstSlaveIndex..orch.size) \ orch.idFailed}

C11_Witness ==
  /\ orch.kind = "create"
  /\ orch.size = 3
  /\ orch.idFailed = {}
  /\ orch.newFailed = {1}
  /\ Len(slaves) = 1
  /\ slaves[1].DataDir = SlaveDir(2)
  /\ pc = "fr_running"

\* positions of the master inside relaunch
RelaunchPcs == {"relaunch", "rl_apply", "rl_http", "rl_slaves", "rl_run", "rl_running", "rl_wait"}

\* a statement of relaunch is executed, or the process dies inside relaunch
RelaunchStep == pc \in RelaunchPcs /\ pc' # pc

\* the setup file still yields the decision relaunch took from it
SameDecision ==
  /\ pc \in {"rl_apply", "rl_http", "rl_slaves", "rl_run"} =>
       Relaunchable(setupFile) /\ Unmarshal(setupFile) = cfg
  /\ pc = "fresh" => ~Relaunchable(setupFile)

\* C12: no statement of relaunch, and no death of the process inside relaunch, changes
\* the setup file, whatever relaunch decides; the file a second attempt reads yields the
\* same record and the same decision.
C12_RelaunchKeepsRecord ==
  /\ [][RelaunchStep => setupFile' = setupFile]_vars
  /\ []SameDecision

C12_Witness ==
  /\ pc = "terminated" /\ outcome = "true"
  /\ SavedEarlier
  /\ setupFile = Marshal(SetupConfigFile(SetupConfigVersion, saved.ID, saved.Peers,
                                         saved.StartLocalSlaves))
  /\ Unmarshal(setupFile) = cfg

\* the harness noted the configuration of the process that is running now
NotedThisRun == noted.run = restarts

\* C13: once relaunch has installed the record, AgencySize is the agency size of the
\* restored peer list, whatever AgencySize the restarted process was configured with.
C13_AgencySizeRestored ==
  Applied =>
    /\ AgencySize = cfg.Peers.AgencySize
    /\ AgencySize = myPeers.AgencySize
    /\ SavedEarlier => AgencySize = saved.Peers.AgencySize

C13_Witness ==
  /\ Applied
  /\ NotedThisRun
  /\ noted.AgencySize = 1
  /\ AgencySize = 2
  /\ cfg.Peers.AgencySize = 2

\* the number of slaves started for the peer at index i of the list startLocalSlaves was given
StartsOf(i) ==
  Cardinality({j \in 1..Len(slaves) :
                 /\ slaves[j].ID = orch.peers[i].ID
                 /\ slaves[j].DataDir = orch.peers[i].DataDir})

\* C14: of the peers given to startLocalSlaves, the one with the invoking service's own ID
\* is never started, and every other peer is started exactly once when its NewService
\* succeeds and not at all when it fails.
C14_SelfSkipped ==
  orch.kind # "none" =>
    /\ \A j \in 1..Len(slaves) : slaves[j].ID # orch.self
    /\ \A i \in 1..Len(orch.peers) :
         StartsOf(i) =
           (IF orch.peers[i].ID = orch.self \/ i \in orch.newFailed THEN 0 ELSE 1)

C14_Witness ==
  /\ orch.kind = "relaunch"
  /\ Len(orch.peers) = 3
  /\ orch.peers[1].ID = orch.self
  /\ orch.newFailed = {3}
  /\ Len(slaves) = 1
  /\ slaves[1].ID = orch.peers[2].ID

\* C15: once a starter whose control-plane API is up has accepted a shutdown request it
\* eventually stops answering, and a WaitUntilStarterGone called after the shutdown
\* eventually returns.
C15_ShutdownLiveness ==
  /\ (ctxCancelled /\ httpServer) ~> ~httpServer
  /\ (ctxCancelled /\ gonePc = "polling") ~> gonePc = "gone"

C15_Witness ==
  /\ pc = "terminated"
  /\ ctxCancelled
  /\ ~httpServer
  /\ gonePc = "gone"
  /\ Len(slaves) >= 1
  /\ AllSlavesExited

\* starter i printed the readiness line for role what before its ExpectTimeout timed out
ReadyInTime(i) ==
  \E k \in 1..Len(starters[i].out) :
    /\ Matches(Pattern(what), starters[i].out[k].text)
    /\ ~starters[i].out[k].late

\* C16: WaitUntilStarterReady returns, and what it returns is true exactly when every
\* starter given printed the readiness line for what before its timeout; one starter
\* timing out makes it false in whatever order the goroutines end.
C16_ReadyResult ==
  /\ [](readyPc = "returned" =>
          /\ result <=> \A i \in 1..Len(starters) : ReadyInTime(i)
          /\ (\E i \in 1..Len(expects) : expects[i] = "timedout") => ~result)
  /\ (readyPc = "loop") ~> (readyPc = "returned")

C16_Witness ==
  /\ readyPc = "returned"
  /\ Len(starters) = 2
  /\ expects = <<"matched", "timedout">>
  /\ ~result
  /\ Len(starters[2].out) = 1
  /\ starters[2].out[1].late
  /\ starters[2].role = what

Types(ps) == {ps[k].Type : k \in 1..Len(ps)}

\* the list fits the mode of the starter: single and nothing else in single mode, a
\* coordinator and a dbserver and no single in cluster mode
FitsMode(ps, m) ==
  IF m = "single"
  THEN Types(ps) = {ServerTypeSingle}
  ELSE /\ {ServerTypeCoordinator, ServerTypeDBServer} \subseteq Types(ps)
       /\ ServerTypeSingle \notin Types(ps)

Relaunching == cfg # NoCfg

\* the restored ID, peer list and AgencySize are all installed
Installed ==
  /\ ID = cfg.ID
  /\ myPeers = cfg.Peers
  /\ AgencySize = cfg.Peers.AgencySize

\* C18: on a relaunch the control-plane server is up only once ID, peer list and
\* AgencySize are installed, slaves exist only once the server was started, and the
\* service is in startRunning only once startLocalSlaves was called (if flagged).
C18_RelaunchOrder ==
  Relaunching =>
    /\ httpServer => Installed
    /\ pc \in {"rl_apply", "rl_http"} => ~httpServer /\ slaves = <<>> /\ orch.kind = "none"
    /\ slaves # <<>> => Installed /\ (httpServer \/ pc = "terminated")
    /\ (pc \in {"rl_running", "rl_wait"} /\ cfg.StartLocalSlaves) => orch.kind = "relaunch"
    /\ pc = "rl_slaves" => httpServer /\ slaves = <<>>

C18_Witness ==
  /\ Relaunching
  /\ pc = "rl_running"
  /\ httpServer
  /\ Installed
  /\ orch.kind = "relaunch"
  /\ Len(slaves) = 1
  /\ slaves[1].st = "launched"

\* C19 as stated: every slave constructed has its ID, data directory, master address and
\* StartLocalSlaves = false set from its own peer, its data directory exists, and it runs
\* only after it was constructed.
C19_Materialized ==
  \A i \in 1..Len(slaves) :
    /\ slaves[i].ID # ""
    /\ slaves[i].DataDir # ""
    /\ slaves[i].MasterAddress = orch.masterAddr
    /\ slaves[i].MasterAddress # <<>>
    /\ ~slaves[i].StartLocalSlaves
    /\ <<slaves[i].ID, slaves[i].DataDir>> \in PeerPairs(orch.peers, 1..Len(orch.peers))
    /\ slaves[i].DataDir \in dirs

\* the slaves whose Run has not returned
Unfinished == {i \in 1..Len(slaves) : slaves[i].st # "exited"}

\* C20: the wait group counts exactly the slaves whose Run has not returned, from before
\* their goroutines start; the master's wg.Wait() does not return while one of them runs,
\* and relaunch returns true only after startRunning returned and every slave has exited.
C20_JoinBarrier ==
  /\ wg = Cardinality(Unfinished)
  /\ (pc = "terminated" /\ outcome # "crashed") => AllSlavesExited
  /\ outcome = "true" => ctxCancelled /\ pc = "terminated" /\ wg = 0

C20_Witness ==
  /\ outcome = "true"
  /\ orch.kind = "relaunch"
  /\ Len(slaves) = 2
  /\ AllSlavesExited
  /\ wg = 0

\* a saveSetup called by the relaunched service has returned nil and its file stands
SavedAfterRelaunch == Applied /\ cfg # NoCfg /\ saved # NoSave /\ saved.by = restarts

\* the record a completed saveSetup left in the setup file
Written == Unmarshal(setupFile)

\* C21 as stated: after a relaunch from a record R (the cfg relaunch decoded), a saveSetup
\* by the relaunched service writes a record equal to R in version, id, peers and
\* start-local-slaves flag.
C21_StableRecord ==
  SavedAfterRelaunch =>
    /\ Parses(setupFile)
    /\ Written.Version = cfg.Version
    /\ Written.ID = cfg.ID
    /\ Written.Peers = cfg.Peers
    /\ Written.StartLocalSlaves = cfg.StartLocalSlaves

====
